---- MODULE Spec2Model ----
(***************************************************************************)
(* Nebula-Chat: the session core of the browser client.                    *)
(*   ApiClient   (src/unnamed/part_000, lines 472-847)                     *)
(*   ChatManager (src/frontend/js/chat.js)                                 *)
(* JavaScript runs one task at a time: an action below is one task (a      *)
(* user call, a timer callback, the arrival of a response) together with   *)
(* every continuation that runs before the next task can start.            *)
(***************************************************************************)
EXTENDS Integers, Sequences, FiniteSets, TLC

\* ---------------------------------------------------------------- bounds
NumProcs == 3          \* logical calls of the ApiClient in one behaviour
NumChats == 2          \* chats the server creates in one behaviour
MaxUpdates == 1        \* writes to existing chats the server accepts in one behaviour
MaxInFlight == 2       \* requests of loadChat, delete, clear and loadChats in flight together

\* ------------------------------------------------------------- constants
TOKEN_REFRESH_INTERVAL == 20   \* CONFIG.SECURITY: 3600000 ms, unit 180000 ms
AgeCap == TOKEN_REFRESH_INTERVAL   \* ages of one interval and more are alike
TimeSteps == {TOKEN_REFRESH_INTERVAL}   \* amounts by which time advances between two tasks
FineSteps == {2}       \* the same where the age at a timer tick matters: 6 minutes
TokenLifetime == 20    \* SECURITY.md: access tokens expire in 1 hour

NULL == 0              \* JavaScript null
UNDEFINED == -1        \* JavaScript undefined (a field missing in a payload)
NoHeader == 0          \* request sent without an Authorization header

Procs == 1..NumProcs

\* kinds of logical call: an authenticated API call (getChats, sendMessage,
\* ...), logout, authenticate, refreshAccessToken
AuthKinds == {"api", "logout"}

\* what the transport can deliver for one fetch
Statuses == {"ok", "unauth", "fail"}

\* bodies of a 2xx answer of /api/auth and /api/refresh
\*   pair        {success:true, data:{accessToken, refreshToken}}
\*   accessOnly  {success:true, data:{accessToken}}
\*   empty       {success:true, data:{}}
\*   nodata      {success:true}
\*   refused     {success:false}
\*   badjson     the body is not JSON, response.json() rejects
Shapes == {"pair", "accessOnly", "empty", "nodata", "refused", "badjson"}

VARIABLES
    token,          \* ApiClient.token
    refreshToken,   \* ApiClient.refreshToken
    isRefreshing,   \* ApiClient.isRefreshing
    failedQueue,    \* ApiClient.failedQueue: callers waiting for a refresh
    stored,         \* localStorage[CONFIG.SECURITY.TOKEN_STORAGE_KEY]
    issued,         \* server: number of token pairs issued so far
    proc,           \* the logical calls and where each one stands
    tokenAge,       \* Date.now() - stored.timestamp, in units of 3 minutes
    timerDue        \* time left until the setInterval callback runs next

VARIABLES
    chats,          \* ChatManager.chats: key -> id of the copy stored (0: none)
    cachedAt,       \* ChatManager.chats: key -> updatedAt of the copy stored
    received,       \* chat id -> the newest updatedAt a response has carried for it
    currentChatId,  \* ChatManager.currentChatId (0: null)
    isLoading,      \* ChatManager.isLoading
    inputEnabled,   \* !messageInput.disabled
    send,           \* the handleSendMessage in progress, or the last one
    creating,       \* API.createChat() calls in flight
    enableTimers,   \* pending 3000 ms timers of createNewChat
    loading,        \* API.getChat() calls of loadChat in flight
    deleting,       \* chat ids with an API.deleteChat() in flight
    clearing,       \* chat ids with an API.clearChat() in flight
    listing,        \* the API.getChats() calls of loadChats in flight, in call order
    created,        \* server: the chats created so far
    visible,        \* server: the chats the store shows to a read
    deleted,        \* server: the chats deleted
    clock,          \* server: the last updatedAt handed out
    updatedAt       \* server: chat id -> updatedAt of the record

chatVars == <<chats, cachedAt, received, currentChatId, isLoading, inputEnabled, send,
              creating, enableTimers, loading, deleting, clearing, listing,
              created, visible, deleted, clock, updatedAt>>

VARIABLES
    hidden          \* document.hidden: the tab is in the background

docVars == <<hidden>>

apiVars == <<token, refreshToken, isRefreshing, failedQueue, stored, issued, proc,
             tokenAge, timerDue>>

Absent == [present |-> FALSE, accessToken |-> NULL, refreshToken |-> NULL]

Truthy(t) == t # NULL /\ t # UNDEFINED

\* One logical call.  kind: what was called; pc: where it is suspended
\* ("fetch": awaiting fetch(), "json": awaiting response.json(), "await":
\* awaiting this.refreshAccessToken(), "done": settled); hdr: the token in the
\* Authorization header of its latest fetch (for a refresh: the refresh token
\* in its body); status: the status of the latest response; fetches: transport
\* calls issued so far; parent: for a refresh, the call that awaits it (0: the
\* timer or a direct call); result: what the caller got.  A settled call keeps
\* its kind and its result only.
NoProc == [kind |-> "none", pc |-> "idle", hdr |-> NoHeader, status |-> "none",
           fetches |-> 0, parent |-> 0, result |-> "none"]

\* p is the record the next call will occupy: records are handed out in order
Free(p) == proc[p].kind = "none" /\ \A q \in Procs : q < p => proc[q].kind # "none"

\* ------------------------------------------------------- CredentialStore
Cred == [token |-> token, refreshToken |-> refreshToken, stored |-> stored, age |-> tokenAge]

saveTokenToStorage(a, r) ==
    [token |-> a, refreshToken |-> r,
     stored |-> [present |-> TRUE, accessToken |-> a, refreshToken |-> r],
     age |-> 0]

clearTokenFromStorage ==
    [token |-> NULL, refreshToken |-> NULL, stored |-> Absent, age |-> 0]

loadTokenFromStorage(st) ==
    IF st.present
    THEN [token |-> st.accessToken, refreshToken |-> st.refreshToken]
    ELSE [token |-> NULL, refreshToken |-> NULL]

SetCred(c) ==
    /\ token' = c.token
    /\ refreshToken' = c.refreshToken
    /\ stored' = c.stored
    /\ tokenAge' = c.age

getHeaders(t) == IF Truthy(t) THEN t ELSE NoHeader

isAuthenticated == Truthy(token)

\* ---------------------------------------------------- RefreshCoordinator
\* refreshTokenIfNeeded: 80% of CONFIG.SECURITY.TOKEN_REFRESH_INTERVAL
RefreshThreshold == (TOKEN_REFRESH_INTERVAL * 8) \div 10

\* the guard of the setInterval callback
TimerGuard == Truthy(token) /\ ~isRefreshing

\* refreshTokenIfNeeded with >= in place of >
NeedsRefresh_AtThreshold == stored.present /\ tokenAge >= RefreshThreshold

\* refreshTokenIfNeeded: a record is stored and it is older than the threshold
NeedsRefresh == stored.present /\ tokenAge > RefreshThreshold

\* refreshAccessToken without its first line
AlreadyRefreshing_NoGuard == FALSE

\* refreshAccessToken returning at once also when a refresh has completed
AlreadyRefreshing_Remembered ==
    \/ isRefreshing
    \/ \E q \in Procs : proc[q].kind = "refresh" /\ proc[q].result \in {"saved", "failed"}

\* refreshAccessToken, first line: a refresh is in flight, return at once
AlreadyRefreshing == isRefreshing

\* the refresh branch of makeRequest taken for every status that is not ok
ShouldRefresh_AnyFailure(st, includeAuth) == st # "ok" /\ includeAuth /\ ~isRefreshing

\* makeRequest: the condition under which a response starts a refresh
ShouldRefresh(st, includeAuth) == st = "unauth" /\ includeAuth /\ ~isRefreshing

\* refreshAccessToken past its guard: POST /api/refresh is issued with the
\* refresh token in its body and no Authorization header (makeRequest with
\* includeAuth = false runs up to its fetch in the same task)
BeginRefresh(pr, q, par) ==
    [pr EXCEPT ![q] = [NoProc EXCEPT !.kind = "refresh", !.pc = "fetch",
                                     !.hdr = getHeaders(refreshToken),
                                     !.fetches = 1, !.parent = par]]

\* processQueue: every queued waiter is settled, the queue is emptied
processQueue(pr, failed) ==
    [w \in Procs |->
        IF \E i \in 1..Len(failedQueue) : failedQueue[i] = w
        THEN [pr[w] EXCEPT !.pc = "done",
                           !.result = IF failed THEN "rejected" ELSE "resolved"]
        ELSE pr[w]]

\* the token pair a 2xx body carries; g is the pair the server issues
PayloadAccess(shape, g) == IF shape \in {"pair", "accessOnly"} THEN g ELSE UNDEFINED
PayloadRefresh(shape, g) == IF shape = "pair" THEN g ELSE UNDEFINED

\* response.success is true and response.data can be read
Accepted(raw, shape) == raw = "ok" /\ shape \in {"pair", "accessOnly", "empty"}

\* the credential store after refreshAccessToken has handled its response
RefreshCred(raw, shape, g) ==
    IF Accepted(raw, shape)
    THEN saveTokenToStorage(PayloadAccess(shape, g), PayloadRefresh(shape, g))
    ELSE clearTokenFromStorage

\* the credential store after authenticate has handled its response
AuthCred(raw, shape, g) ==
    IF Accepted(raw, shape)
    THEN saveTokenToStorage(PayloadAccess(shape, g), PayloadRefresh(shape, g))
    ELSE Cred

Issues(raw, shape) == raw = "ok" /\ shape \in {"pair", "accessOnly"}

\* isRefreshing reset in the try block only, after a refresh that was saved
RefreshingAfter_SuccessOnly(raw, shape) == ~Accepted(raw, shape)

\* refreshAccessToken, finally { this.isRefreshing = false }: the value of
\* isRefreshing once the refresh has handled its response or its error
RefreshingAfter(raw, shape) == FALSE

\* ------------------------------------------------- AuthenticatedTransport
IncludeAuth(p) == proc[p].kind \in AuthKinds

\* what makeRequest gives its caller: inside the retry (a second or later
\* fetch) every error is replaced by Error('Authentication failed')
Wrap(p, raw) ==
    IF raw = "ok" THEN "ok"
    ELSE IF proc[p].fetches > 1 THEN "authFailed" ELSE raw

\* makeRequest after refreshAccessToken has returned: the request is sent
\* again with the headers of the current token
Retry(pr, p, tok) ==
    [pr EXCEPT ![p].pc = "fetch", ![p].hdr = getHeaders(tok),
               ![p].fetches = pr[p].fetches + 1]

\* the logical call p settles; raw is what its last transport call gave and
\* pr the calls as they stand
Complete(pr, p, raw, shape) ==
    LET k == pr[p].kind
        g == issued + 1
        settled(res) == [pr EXCEPT ![p] = [NoProc EXCEPT !.kind = k, !.pc = "done", !.result = res]]
    IN
    CASE k = "api" ->
            /\ proc' = settled(Wrap(p, raw))
            /\ UNCHANGED <<token, refreshToken, stored, tokenAge, isRefreshing,
                           failedQueue, issued>>
      [] k = "logout" ->
            \* finally { this.clearTokenFromStorage() }
            /\ proc' = settled(Wrap(p, raw))
            /\ SetCred(clearTokenFromStorage)
            /\ UNCHANGED <<isRefreshing, failedQueue, issued>>
      [] k = "auth" ->
            /\ proc' = settled(IF Accepted(raw, shape) THEN "saved" ELSE "failed")
            /\ SetCred(AuthCred(raw, shape, g))
            /\ issued' = IF Issues(raw, shape) THEN g ELSE issued
            /\ UNCHANGED <<isRefreshing, failedQueue>>
      [] k = "refresh" ->
            LET c    == RefreshCred(raw, shape, g)
                par  == pr[p].parent
                pr1  == settled(IF Accepted(raw, shape) THEN "saved" ELSE "failed")
                pr2  == processQueue(pr1, ~Accepted(raw, shape))
            IN
            /\ SetCred(c)
            /\ issued' = IF Issues(raw, shape) THEN g ELSE issued
            /\ isRefreshing' = RefreshingAfter(raw, shape)
            /\ failedQueue' = <<>>
            /\ proc' = IF par # 0 THEN Retry(pr2, par, c.token) ELSE pr2

\* ------------------------------------------------------ ApiClient actions
\* an authenticated call (getChats, getChat, sendMessage, ...): makeRequest
\* builds the headers from the current token and issues the fetch
ApiCall(p) ==
    /\ Free(p)
    /\ proc' = [proc EXCEPT ![p] = [NoProc EXCEPT !.kind = "api", !.pc = "fetch",
                                        !.hdr = getHeaders(token), !.fetches = 1]]
    /\ UNCHANGED <<token, refreshToken, stored, tokenAge, timerDue, isRefreshing,
                   failedQueue, issued>>

\* authenticate(password): makeRequest(AUTH, ..., false)
Authenticate(p) ==
    /\ Free(p)
    /\ proc' = [proc EXCEPT ![p] = [NoProc EXCEPT !.kind = "auth", !.pc = "fetch",
                                        !.fetches = 1]]
    /\ UNCHANGED <<token, refreshToken, stored, tokenAge, timerDue, isRefreshing,
                   failedQueue, issued>>

\* logout(): POST /api/logout only when a token is held, then clear
Logout(p) ==
    /\ Free(p)
    /\ IF Truthy(token)
       THEN /\ proc' = [proc EXCEPT ![p] = [NoProc EXCEPT !.kind = "logout", !.pc = "fetch",
                                                !.hdr = getHeaders(token), !.fetches = 1]]
            /\ UNCHANGED <<token, refreshToken, stored, tokenAge>>
       ELSE /\ proc' = [proc EXCEPT ![p] = [NoProc EXCEPT !.kind = "logout", !.pc = "done",
                                                !.result = "ok"]]
            /\ SetCred(clearTokenFromStorage)
    /\ UNCHANGED <<timerDue, isRefreshing, failedQueue, issued>>

\* refreshAccessToken() called while nothing awaits it but its caller
RefreshCall(p) ==
    /\ Free(p)
    /\ IF AlreadyRefreshing
       THEN /\ proc' = [proc EXCEPT ![p] = [NoProc EXCEPT !.kind = "refresh", !.pc = "done",
                                                !.result = "skipped"]]
            /\ UNCHANGED isRefreshing
       ELSE /\ proc' = BeginRefresh(proc, p, 0)
            /\ isRefreshing' = TRUE
    /\ UNCHANGED <<token, refreshToken, stored, tokenAge, timerDue, failedQueue, issued>>

\* the setInterval callback of setupTokenRefresh, with refreshTokenIfNeeded
TimerFire ==
    /\ timerDue = 0
    /\ timerDue' = TOKEN_REFRESH_INTERVAL
    /\ IF TimerGuard /\ NeedsRefresh /\ ~AlreadyRefreshing
       THEN \E q \in Procs :
               /\ Free(q)
               /\ proc' = BeginRefresh(proc, q, 0)
               /\ isRefreshing' = TRUE
       ELSE UNCHANGED <<proc, isRefreshing>>
    /\ UNCHANGED <<token, refreshToken, stored, tokenAge, failedQueue, issued>>

\* what makeRequest makes of a response: the status st and the body
\* ("ok": the parsed body is returned; "http401", "httpError": Error(data.error)
\* is thrown for a status that is not ok; "badjson": response.json() throws)
Raw(st, shape) ==
    IF shape = "badjson" THEN "badjson"
    ELSE IF st = "ok" THEN "ok"
    ELSE IF st = "unauth" THEN "http401" ELSE "httpError"

\* the bodies told apart for a call of this kind answered with status st:
\* only /api/auth and /api/refresh have their 2xx body looked into
BodiesOf(k, st) == IF k \in {"auth", "refresh"} /\ st = "ok" THEN Shapes ELSE {"pair"}

\* the server: /api/refresh answers 400 when the body carries no refresh
\* token (API.md); every other answer is left open
ServerAnswers(r, st) == (r.kind = "refresh" /\ r.hdr = NoHeader) => st # "ok"

\* fetch() resolves with a response of status st.  A 401 of an authenticated
\* call starts a refresh unless one is in flight.  Otherwise the body is
\* awaited (response.json()): that second suspension is a step of its own
\* for logout, whose continuation writes the credential store; for the other
\* calls nothing is read between the two and the body (shape) is taken in
\* the same step.
FetchResponse(p, st, shape) ==
    /\ proc[p].pc = "fetch"
    /\ ServerAnswers(proc[p], st)
    /\ shape \in BodiesOf(proc[p].kind, st)
    /\ IF ShouldRefresh(st, IncludeAuth(p))
       THEN /\ IF AlreadyRefreshing
               THEN \* refreshAccessToken returns at once, the request is sent again
                    /\ proc' = Retry([proc EXCEPT ![p].status = st], p, token)
                    /\ UNCHANGED isRefreshing
               ELSE \E q \in Procs :
                       /\ Free(q)
                       /\ proc' = BeginRefresh([proc EXCEPT ![p].pc = "await",
                                                            ![p].status = st], q, p)
                       /\ isRefreshing' = TRUE
            /\ UNCHANGED <<token, refreshToken, stored, tokenAge, failedQueue, issued>>
       ELSE IF proc[p].kind = "logout"
       THEN /\ proc' = [proc EXCEPT ![p].pc = "json", ![p].status = st]
            /\ UNCHANGED <<token, refreshToken, stored, tokenAge, isRefreshing,
                           failedQueue, issued>>
       ELSE Complete([proc EXCEPT ![p].status = st], p, Raw(st, shape), shape)
    /\ UNCHANGED timerDue

\* fetch() rejects: no response (TypeError: Failed to fetch)
FetchReject(p) ==
    /\ proc[p].pc = "fetch"
    /\ Complete(proc, p, "network", "none")
    /\ UNCHANGED timerDue

\* response.json() settles; shape is the body
JsonSettle(p, shape) ==
    /\ proc[p].pc = "json"
    /\ shape \in BodiesOf(proc[p].kind, proc[p].status)
    /\ Complete(proc, p, Raw(proc[p].status, shape), shape)
    /\ UNCHANGED timerDue

\* time passes
Tick(d) ==
    /\ d <= timerDue
    /\ timerDue' = timerDue - d
    /\ tokenAge' = IF stored.present
                   THEN (IF tokenAge + d > AgeCap THEN AgeCap ELSE tokenAge + d)
                   ELSE tokenAge
    /\ UNCHANGED <<token, refreshToken, stored, isRefreshing, failedQueue, issued, proc>>

\* no request of the ApiClient is in flight
Quiet == \A p \in Procs : proc[p].pc \in {"idle", "done"}

\* time passes between two exchanges with the server: an exchange takes far
\* less than the 6 minutes of a step
TickQuiet(d) == Quiet /\ Tick(d)

\* the worker, as far as time matters: an access token is accepted until it
\* expires, /api/refresh and /api/auth hand out a new pair
TimedAnswer(p, st, shape) ==
    CASE proc[p].kind = "api" ->
            /\ shape = "pair"
            /\ st = (IF proc[p].hdr = token /\ Truthy(token) /\ tokenAge < TokenLifetime
                     THEN "ok" ELSE "unauth")
      [] proc[p].kind = "refresh" ->
            IF proc[p].hdr = NoHeader THEN st = "fail" /\ shape = "pair"
                                      ELSE st = "ok" /\ shape = "pair"
      [] OTHER -> st \in {"ok", "fail"} /\ shape = "pair"

\* the response of such a worker arrives
Served(p) ==
    \E st \in Statuses, shape \in Shapes :
        TimedAnswer(p, st, shape) /\ FetchResponse(p, st, shape)

\* the state after `new ApiClient()`: the constructor has loaded what the
\* previous session left under the storage key
InitAges == {0}
InitApi ==
    /\ \E st \in {Absent, [present |-> TRUE, accessToken |-> 1, refreshToken |-> 1]} :
          /\ stored = st
          /\ token = loadTokenFromStorage(st).token
          /\ refreshToken = loadTokenFromStorage(st).refreshToken
          /\ issued = IF st.present THEN 1 ELSE 0
          /\ tokenAge \in (IF st.present THEN InitAges ELSE {0})
    /\ isRefreshing = FALSE
    /\ failedQueue = <<>>
    /\ proc = [p \in Procs |-> NoProc]
    /\ timerDue = TOKEN_REFRESH_INTERVAL

\* ------------------------------------------------------------ ChatManager
ChatIds == 1..NumChats
Keys == 0..NumChats        \* keys of the Map; 0 stands for the key null

MaxClock == NumChats + MaxUpdates   \* the last updatedAt the server hands out
Stamps == 0..MaxClock      \* values of updatedAt; 0: no record

maxRetries == 3            \* handleSendMessage

\* handleSendMessage: the wait before the next attempt, in ms, after the
\* retryCount-th 'Chat not found'
RetryDelay(retryCount) == 2000

NoSend == [pc |-> "idle", target |-> 0, start |-> 0, known |-> FALSE, retryCount |-> 0,
           attempts |-> 0, first |-> "none", last |-> "none", waits |-> <<>>,
           result |-> "none"]

\* the answers API.sendMessage can give for a chat: the parsed body, the
\* error 'Chat not found', or any other error of makeRequest
Answers == {"ok", "notfound", "error"}

\* the store shows a chat to the worker once the write has propagated
StoreAnswers(c, ans) == IF c \in visible THEN ans # "notfound" ELSE ans # "ok"

\* the retry test with the ceiling one too low
ShouldRetry_OneShort(ans, retryCount) == ans = "notfound" /\ retryCount < maxRetries - 2

\* the retry test with the ceiling one too high
ShouldRetry_OneMore(ans, retryCount) == ans = "notfound" /\ retryCount < maxRetries

\* handleSendMessage, catch of the retry loop: wait and try again
ShouldRetry(ans, retryCount) == ans = "notfound" /\ retryCount < maxRetries - 1

\* what the outer catch of handleSendMessage shows: error.message
Failure(ans) == IF ans = "notfound" THEN "Chat not found" ELSE "error"

\* the server writes a record: the next updatedAt
Stamp == clock + 1
CanStamp == clock < MaxClock

Newest(a, b) == IF a >= b THEN a ELSE b

\* a request of loadChat in flight: the chat asked for and, once the server
\* has read it, the updatedAt of the copy in the response (0: not read yet)
LoadReq(c) == [id |-> c, at |-> 0]

\* the requests of loadChat, deleteCurrentChat, clearCurrentChat and loadChats
\* that are in flight
InFlightCount ==
    Cardinality(loading) + Cardinality(deleting) + Cardinality(clearing)
        + Len(listing)

\* no loadChats is running
NoList == <<>>

\* a request of loadChats in flight: the list it will carry once the server
\* has read it (chat id -> updatedAt, 0: the chat is not in the list)
ListReq == [pc |-> "pending", snap |-> [c \in ChatIds |-> 0]]

\* the requests s without the i-th
Remove(s, i) == SubSeq(s, 1, i - 1) \o SubSeq(s, i + 1, Len(s))

\* loadChat returning before its request for every chat
loadChat_NoRequest(ld, cur, c) == ld

\* loadChat(c) called from a continuation, up to its await of API.getChat():
\* the requests in flight afterwards
loadChat(ld, cur, c) == IF c = 0 \/ c = cur THEN ld ELSE ld \cup {LoadReq(c)}

\* the keys whose copy sorts first by updatedAt, newest first
MostRecent(ch, at) ==
    {k \in Keys : ch[k] # 0 /\ \A j \in Keys : ch[j] # 0 => at[j] <= at[k]}

\* createNewChat after API.createChat() has settled: the current chat; this
\* one loses the current chat when the request fails
createdCurrent_Reset(ok, c) == IF ok THEN c ELSE 0

\* createNewChat after API.createChat() has settled: the current chat
createdCurrent(ok, c) == IF ok THEN c ELSE currentChatId

\* click on "new chat": createNewChat up to its await of API.createChat()
CreateNewChat ==
    /\ Cardinality(created) + creating < NumChats
    /\ creating' = creating + 1
    /\ UNCHANGED <<chats, cachedAt, received, currentChatId, isLoading, inputEnabled,
                   send, enableTimers, loading, deleting, clearing, listing,
                   created, visible, deleted, clock, updatedAt>>

\* API.createChat() settles.  On success the chat is stored and made current,
\* the input is disabled and the 3000 ms timer is set
CreateSettle(ok) ==
    /\ creating > 0
    /\ ok => CanStamp
    /\ creating' = creating - 1
    /\ LET c == Cardinality(created) + 1 IN
       /\ currentChatId' = createdCurrent(ok, c)
       /\ IF ok
          THEN /\ created' = created \cup {c}
               /\ clock' = Stamp
               /\ updatedAt' = [updatedAt EXCEPT ![c] = Stamp]
               /\ chats' = [chats EXCEPT ![c] = c]
               /\ cachedAt' = [cachedAt EXCEPT ![c] = Stamp]
               /\ received' = [received EXCEPT ![c] = Stamp]
               /\ inputEnabled' = FALSE
               /\ enableTimers' = enableTimers + 1
          ELSE UNCHANGED <<created, clock, updatedAt, chats, cachedAt, received,
                           inputEnabled, enableTimers>>
    /\ UNCHANGED <<isLoading, send, loading, deleting, clearing, listing, visible, deleted>>

\* the 3000 ms timer of createNewChat: enableInput()
EnableTimerFire ==
    /\ enableTimers > 0
    /\ enableTimers' = enableTimers - 1
    /\ inputEnabled' = TRUE
    /\ UNCHANGED <<chats, cachedAt, received, currentChatId, isLoading, send, creating,
                   loading, deleting, clearing, listing, created, visible, deleted,
                   clock, updatedAt>>

\* the write of a created chat reaches the replica the worker reads
Propagate(c) ==
    /\ c \in (created \ visible) \ deleted
    /\ visible' = visible \cup {c}
    /\ UNCHANGED <<chats, cachedAt, received, currentChatId, isLoading, inputEnabled,
                   send, creating, enableTimers, loading, deleting, clearing, listing,
                   created, deleted, clock, updatedAt>>

\* click on a chat of the list: loadChat(c) up to its await of API.getChat()
LoadChat(c) ==
    /\ \E k \in Keys : chats[k] = c
    /\ c # currentChatId
    /\ LoadReq(c) \notin loading
    /\ InFlightCount < MaxInFlight
    /\ loading' = loading \cup {LoadReq(c)}
    /\ UNCHANGED <<chats, cachedAt, received, currentChatId, isLoading, inputEnabled,
                   send, creating, enableTimers, deleting, clearing, listing,
                   created, visible, deleted, clock, updatedAt>>

\* the server reads the chat for GET /api/chats/:id
ServeLoad(c) ==
    /\ LoadReq(c) \in loading
    /\ c \in visible
    /\ loading' = (loading \ {LoadReq(c)}) \cup {[id |-> c, at |-> updatedAt[c]]}
    /\ UNCHANGED <<chats, cachedAt, received, currentChatId, isLoading, inputEnabled,
                   send, creating, enableTimers, deleting, clearing, listing,
                   created, visible, deleted, clock, updatedAt>>

\* API.getChat(r.id) settles
LoadSettle(r, ok) ==
    /\ r \in loading
    /\ ok => r.at > 0
    /\ loading' = loading \ {r}
    /\ IF ok
       THEN /\ chats' = [chats EXCEPT ![r.id] = r.id]
            /\ cachedAt' = [cachedAt EXCEPT ![r.id] = r.at]
            /\ received' = [received EXCEPT ![r.id] = Newest(received[r.id], r.at)]
            /\ currentChatId' = r.id
            /\ inputEnabled' = TRUE
       ELSE IF chats[r.id] # 0
       THEN /\ currentChatId' = r.id
            /\ inputEnabled' = TRUE
            /\ UNCHANGED <<chats, cachedAt, received>>
       ELSE UNCHANGED <<chats, cachedAt, received, currentChatId, inputEnabled>>
    /\ UNCHANGED <<isLoading, send, creating, enableTimers, deleting, clearing, listing,
                   created, visible, deleted, clock, updatedAt>>

\* refreshCurrentChat: loadChat of the current chat, if there is one
refreshCurrentChat(ld, cur) == IF cur # 0 THEN loadChat(ld, cur, cur) ELSE ld

\* the event 'visibilitychange': the tab goes to the background or comes
\* back; when it comes back handleVisibilityChange calls refreshCurrentChat
HandleVisibilityChange ==
    /\ hidden' = ~hidden
    /\ loading' = IF hidden THEN refreshCurrentChat(loading, currentChatId) ELSE loading
    /\ Cardinality(loading') + Cardinality(deleting) + Cardinality(clearing)
          + Len(listing) <= MaxInFlight
    /\ UNCHANGED <<chats, cachedAt, received, currentChatId, isLoading, inputEnabled,
                   send, creating, enableTimers, deleting, clearing, listing,
                   created, visible, deleted, clock, updatedAt>>

\* click on send or Enter, possible while the input is enabled:
\* handleSendMessage up to its first await of API.sendMessage()
SendMessage ==
    /\ inputEnabled
    /\ ~isLoading
    /\ currentChatId # 0
    /\ isLoading' = TRUE
    /\ inputEnabled' = FALSE
    /\ send' = [NoSend EXCEPT !.pc = "request", !.target = currentChatId,
                              !.start = currentChatId,
                              !.known = (chats[currentChatId] # 0), !.attempts = 1]
    /\ UNCHANGED <<chats, cachedAt, received, currentChatId, creating, enableTimers,
                   loading, deleting, clearing, listing, created, visible, deleted,
                   clock, updatedAt>>

\* API.sendMessage() settles with ans
SendSettle(ans) ==
    /\ send.pc = "request"
    /\ StoreAnswers(send.target, ans)
    /\ ans = "ok" => CanStamp
    /\ LET hist == [send EXCEPT !.last = ans,
                                !.first = IF send.attempts = 1 THEN ans ELSE send.first]
       IN
       IF ans = "ok"
       THEN \* this.chats.set(this.currentChatId, response.chat); finally
            /\ clock' = Stamp
            /\ updatedAt' = [updatedAt EXCEPT ![send.target] = Stamp]
            /\ chats' = [chats EXCEPT ![currentChatId] = send.target]
            /\ cachedAt' = [cachedAt EXCEPT ![currentChatId] = Stamp]
            /\ received' = [received EXCEPT ![send.target] = Stamp]
            /\ send' = [hist EXCEPT !.pc = "done", !.result = "ok"]
            /\ isLoading' = FALSE
            /\ inputEnabled' = TRUE
       ELSE IF ShouldRetry(ans, send.retryCount)
       THEN /\ send' = [hist EXCEPT !.pc = "wait", !.retryCount = send.retryCount + 1,
                                    !.waits = Append(send.waits,
                                                     RetryDelay(send.retryCount + 1))]
            /\ UNCHANGED <<chats, cachedAt, received, isLoading, inputEnabled,
                           clock, updatedAt>>
       ELSE \* throw error; catch; finally
            /\ send' = [hist EXCEPT !.pc = "done", !.result = Failure(ans)]
            /\ isLoading' = FALSE
            /\ inputEnabled' = TRUE
            /\ UNCHANGED <<chats, cachedAt, received, clock, updatedAt>>
    /\ UNCHANGED <<currentChatId, creating, enableTimers, loading, deleting, clearing,
                   listing, created, visible, deleted>>

\* the 2000 ms wait is over: the loop sends to this.currentChatId again
RetryTimerFire ==
    /\ send.pc = "wait"
    /\ send' = [send EXCEPT !.pc = "request", !.target = currentChatId,
                            !.attempts = send.attempts + 1]
    /\ UNCHANGED <<chats, cachedAt, received, currentChatId, isLoading, inputEnabled,
                   creating, enableTimers, loading, deleting, clearing, listing,
                   created, visible, deleted, clock, updatedAt>>

\* "delete chat" confirmed in the dialog: deleteCurrentChat up to its await
\* of API.deleteChat(this.currentChatId)
DeleteCurrentChat ==
    /\ currentChatId # 0
    /\ currentChatId \notin deleting
    /\ InFlightCount < MaxInFlight
    /\ deleting' = deleting \cup {currentChatId}
    /\ UNCHANGED <<chats, cachedAt, received, currentChatId, isLoading, inputEnabled,
                   send, creating, enableTimers, loading, clearing, listing,
                   created, visible, deleted, clock, updatedAt>>

\* API.deleteChat(x) settles.  On success this.chats.delete(this.currentChatId),
\* then the most recent of the remaining chats is loaded, or the welcome
\* message is shown
DeleteSettle(x, ok) ==
    /\ x \in deleting
    /\ ok => x \in visible
    /\ deleting' = deleting \ {x}
    /\ IF ok
       THEN LET ch == [chats EXCEPT ![currentChatId] = 0]
                at == [cachedAt EXCEPT ![currentChatId] = 0]
            IN
            /\ deleted' = deleted \cup {x}
            /\ visible' = visible \ {x}
            /\ updatedAt' = [updatedAt EXCEPT ![x] = 0]
            /\ chats' = ch
            /\ cachedAt' = at
            /\ IF MostRecent(ch, at) # {}
               THEN /\ \E k \in MostRecent(ch, at) :
                          loading' = loadChat(loading, currentChatId, ch[k])
                    /\ UNCHANGED <<currentChatId, inputEnabled>>
               ELSE \* showWelcomeMessage
                    /\ currentChatId' = 0
                    /\ inputEnabled' = FALSE
                    /\ UNCHANGED loading
       ELSE UNCHANGED <<deleted, visible, updatedAt, chats, cachedAt, loading,
                        currentChatId, inputEnabled>>
    /\ UNCHANGED <<received, isLoading, send, creating, enableTimers, clearing, listing,
                   created, clock>>

\* "clear chat" confirmed in the dialog: clearCurrentChat up to its await of
\* API.clearChat(this.currentChatId)
ClearCurrentChat ==
    /\ currentChatId # 0
    /\ currentChatId \notin clearing
    /\ InFlightCount < MaxInFlight
    /\ clearing' = clearing \cup {currentChatId}
    /\ UNCHANGED <<chats, cachedAt, received, currentChatId, isLoading, inputEnabled,
                   send, creating, enableTimers, loading, deleting, listing,
                   created, visible, deleted, clock, updatedAt>>

\* API.clearChat(x) settles: the messages of the cached copy are emptied in
\* place, its updatedAt is left as it is
ClearSettle(x) ==
    /\ x \in clearing
    /\ clearing' = clearing \ {x}
    /\ UNCHANGED <<chats, cachedAt, received, currentChatId, isLoading, inputEnabled,
                   send, creating, enableTimers, loading, deleting, listing,
                   created, visible, deleted, clock, updatedAt>>

\* the event 'app-ready' (after a login): loadChats up to its await of
\* API.getChats()
LoadChats ==
    /\ listing = NoList
    /\ InFlightCount < MaxInFlight
    /\ listing' = <<ListReq>>
    /\ UNCHANGED <<chats, cachedAt, received, currentChatId, isLoading, inputEnabled,
                   send, creating, enableTimers, loading, deleting, clearing,
                   created, visible, deleted, clock, updatedAt>>

\* the event 'app-ready' once more while a loadChats is running (auth.js and
\* app.js both dispatch it): a second run, up to its await of API.getChats()
LoadChatsAgain ==
    /\ listing # NoList
    /\ InFlightCount < MaxInFlight
    /\ listing' = Append(listing, ListReq)
    /\ UNCHANGED <<chats, cachedAt, received, currentChatId, isLoading, inputEnabled,
                   send, creating, enableTimers, loading, deleting, clearing,
                   created, visible, deleted, clock, updatedAt>>

\* the server reads the list for GET /api/chats
ServeList(i) ==
    /\ i \in 1..Len(listing)
    /\ listing[i].pc = "pending"
    /\ listing' = [listing EXCEPT ![i] =
                      [pc |-> "served",
                       snap |-> [c \in ChatIds |-> IF c \in visible THEN updatedAt[c] ELSE 0]]]
    /\ UNCHANGED <<chats, cachedAt, received, currentChatId, isLoading, inputEnabled,
                   send, creating, enableTimers, loading, deleting, clearing,
                   created, visible, deleted, clock, updatedAt>>

\* API.getChats() settles.  On success the map is cleared and filled from the
\* list, and the most recent chat is loaded; the welcome message is shown for
\* an empty list and for a failure
ListSettle(i, ok) ==
    /\ i \in 1..Len(listing)
    /\ ok => listing[i].pc = "served"
    /\ listing' = Remove(listing, i)
    /\ IF ok
       THEN LET snap == listing[i].snap
                ch == [k \in Keys |-> IF k # 0 /\ snap[k] # 0 THEN k ELSE 0]
                at == [k \in Keys |-> IF k # 0 THEN snap[k] ELSE 0]
            IN
            /\ chats' = ch
            /\ cachedAt' = at
            /\ received' = [c \in ChatIds |-> Newest(received[c], snap[c])]
            /\ IF MostRecent(ch, at) # {}
               THEN /\ \E k \in MostRecent(ch, at) :
                          loading' = loadChat(loading, currentChatId, ch[k])
                    /\ UNCHANGED <<currentChatId, inputEnabled>>
               ELSE /\ currentChatId' = 0
                    /\ inputEnabled' = FALSE
                    /\ UNCHANGED loading
       ELSE /\ currentChatId' = 0
            /\ inputEnabled' = FALSE
            /\ UNCHANGED <<chats, cachedAt, received, loading>>
    /\ UNCHANGED <<isLoading, send, creating, enableTimers, deleting, clearing,
                   created, visible, deleted, clock, updatedAt>>

\* the state after `new ChatManager()` and a first loadChats that found none
InitChat ==
    /\ chats = [k \in Keys |-> 0]
    /\ cachedAt = [k \in Keys |-> 0]
    /\ received = [c \in ChatIds |-> 0]
    /\ currentChatId = 0
    /\ isLoading = FALSE
    /\ inputEnabled = FALSE
    /\ send = NoSend
    /\ creating = 0
    /\ enableTimers = 0
    /\ loading = {}
    /\ deleting = {}
    /\ clearing = {}
    /\ listing = NoList
    /\ created = {}
    /\ visible = {}
    /\ deleted = {}
    /\ clock = 0
    /\ updatedAt = [c \in ChatIds |-> 0]

\* --------------------------------------------------------- specifications
vars == <<apiVars, chatVars, docVars>>

Init == InitApi /\ InitChat /\ hidden = FALSE

\* the ApiClient
Next ==
    \/ \E p \in Procs : ApiCall(p) /\ UNCHANGED <<chatVars, docVars>>
    \/ \E p \in Procs : Authenticate(p) /\ UNCHANGED <<chatVars, docVars>>
    \/ \E p \in Procs : Logout(p) /\ UNCHANGED <<chatVars, docVars>>
    \/ \E p \in Procs : RefreshCall(p) /\ UNCHANGED <<chatVars, docVars>>
    \/ TimerFire /\ UNCHANGED <<chatVars, docVars>>
    \/ \E p \in Procs, st \in Statuses, shape \in Shapes :
          FetchResponse(p, st, shape) /\ UNCHANGED <<chatVars, docVars>>
    \/ \E p \in Procs : FetchReject(p) /\ UNCHANGED <<chatVars, docVars>>
    \/ \E p \in Procs, shape \in Shapes : JsonSettle(p, shape) /\ UNCHANGED <<chatVars, docVars>>
    \/ \E d \in TimeSteps : Tick(d) /\ UNCHANGED <<chatVars, docVars>>

Spec == Init /\ [][Next]_vars

\* the ApiClient over a worker that rejects expired tokens only, time in
\* steps of 6 minutes
NextTimer ==
    \/ \E p \in Procs : ApiCall(p) /\ UNCHANGED <<chatVars, docVars>>
    \/ \E p \in Procs : Authenticate(p) /\ UNCHANGED <<chatVars, docVars>>
    \/ TimerFire /\ UNCHANGED <<chatVars, docVars>>
    \/ \E p \in Procs : Served(p) /\ UNCHANGED <<chatVars, docVars>>
    \/ \E d \in FineSteps : TickQuiet(d) /\ UNCHANGED <<chatVars, docVars>>

SpecTimer == Init /\ [][NextTimer]_vars

\* the ChatManager, over an ApiClient whose calls settle in any way: new chat,
\* chat switch and send
NextChat ==
    \/ CreateNewChat /\ UNCHANGED <<apiVars, docVars>>
    \/ \E ok \in BOOLEAN : CreateSettle(ok) /\ UNCHANGED <<apiVars, docVars>>
    \/ EnableTimerFire /\ UNCHANGED <<apiVars, docVars>>
    \/ \E c \in ChatIds : Propagate(c) /\ UNCHANGED <<apiVars, docVars>>
    \/ \E c \in ChatIds : LoadChat(c) /\ UNCHANGED <<apiVars, docVars>>
    \/ \E c \in ChatIds : ServeLoad(c) /\ UNCHANGED <<apiVars, docVars>>
    \/ \E r \in loading, ok \in BOOLEAN : LoadSettle(r, ok) /\ UNCHANGED <<apiVars, docVars>>
    \/ SendMessage /\ UNCHANGED <<apiVars, docVars>>
    \/ \E ans \in Answers : SendSettle(ans) /\ UNCHANGED <<apiVars, docVars>>
    \/ RetryTimerFire /\ UNCHANGED <<apiVars, docVars>>

SpecChat == Init /\ [][NextChat]_vars

\* the same where every request of a send is answered and every retry wait
\* ends: fetch settles or is rejected, setTimeout fires
SpecChatFair ==
    /\ Init /\ [][NextChat]_vars
    /\ WF_vars(\E ans \in Answers : SendSettle(ans) /\ UNCHANGED <<apiVars, docVars>>)
    /\ WF_vars(RetryTimerFire /\ UNCHANGED <<apiVars, docVars>>)

\* the same with "delete chat" and "clear chat"
NextChatOps ==
    \/ CreateNewChat /\ UNCHANGED <<apiVars, docVars>>
    \/ \E ok \in BOOLEAN : CreateSettle(ok) /\ UNCHANGED <<apiVars, docVars>>
    \/ EnableTimerFire /\ UNCHANGED <<apiVars, docVars>>
    \/ \E c \in ChatIds : Propagate(c) /\ UNCHANGED <<apiVars, docVars>>
    \/ \E c \in ChatIds : LoadChat(c) /\ UNCHANGED <<apiVars, docVars>>
    \/ \E c \in ChatIds : ServeLoad(c) /\ UNCHANGED <<apiVars, docVars>>
    \/ \E r \in loading, ok \in BOOLEAN : LoadSettle(r, ok) /\ UNCHANGED <<apiVars, docVars>>
    \/ SendMessage /\ UNCHANGED <<apiVars, docVars>>
    \/ \E ans \in Answers : SendSettle(ans) /\ UNCHANGED <<apiVars, docVars>>
    \/ RetryTimerFire /\ UNCHANGED <<apiVars, docVars>>
    \/ DeleteCurrentChat /\ UNCHANGED <<apiVars, docVars>>
    \/ \E x \in ChatIds, ok \in BOOLEAN : DeleteSettle(x, ok) /\ UNCHANGED <<apiVars, docVars>>
    \/ ClearCurrentChat /\ UNCHANGED <<apiVars, docVars>>
    \/ \E x \in ChatIds : ClearSettle(x) /\ UNCHANGED <<apiVars, docVars>>

SpecChatOps == Init /\ [][NextChatOps]_vars

\* new chat, chat switch and send with the event 'app-ready' (loadChats)
NextChatList ==
    \/ CreateNewChat /\ UNCHANGED <<apiVars, docVars>>
    \/ \E ok \in BOOLEAN : CreateSettle(ok) /\ UNCHANGED <<apiVars, docVars>>
    \/ EnableTimerFire /\ UNCHANGED <<apiVars, docVars>>
    \/ \E c \in ChatIds : Propagate(c) /\ UNCHANGED <<apiVars, docVars>>
    \/ \E c \in ChatIds : LoadChat(c) /\ UNCHANGED <<apiVars, docVars>>
    \/ \E c \in ChatIds : ServeLoad(c) /\ UNCHANGED <<apiVars, docVars>>
    \/ \E r \in loading, ok \in BOOLEAN : LoadSettle(r, ok) /\ UNCHANGED <<apiVars, docVars>>
    \/ SendMessage /\ UNCHANGED <<apiVars, docVars>>
    \/ \E ans \in Answers : SendSettle(ans) /\ UNCHANGED <<apiVars, docVars>>
    \/ RetryTimerFire /\ UNCHANGED <<apiVars, docVars>>
    \/ LoadChats /\ UNCHANGED <<apiVars, docVars>>
    \/ \E i \in 1..MaxInFlight : ServeList(i) /\ UNCHANGED <<apiVars, docVars>>
    \/ \E i \in 1..MaxInFlight, ok \in BOOLEAN : ListSettle(i, ok) /\ UNCHANGED <<apiVars, docVars>>

SpecChatList == Init /\ [][NextChatList]_vars

\* moving between chats: 'app-ready' (also repeated), new chat, chat switch
\* and delete chat
NextChatNav ==
    \/ CreateNewChat /\ UNCHANGED <<apiVars, docVars>>
    \/ \E ok \in BOOLEAN : CreateSettle(ok) /\ UNCHANGED <<apiVars, docVars>>
    \/ EnableTimerFire /\ UNCHANGED <<apiVars, docVars>>
    \/ \E c \in ChatIds : Propagate(c) /\ UNCHANGED <<apiVars, docVars>>
    \/ \E c \in ChatIds : LoadChat(c) /\ UNCHANGED <<apiVars, docVars>>
    \/ \E c \in ChatIds : ServeLoad(c) /\ UNCHANGED <<apiVars, docVars>>
    \/ \E r \in loading, ok \in BOOLEAN : LoadSettle(r, ok) /\ UNCHANGED <<apiVars, docVars>>
    \/ DeleteCurrentChat /\ UNCHANGED <<apiVars, docVars>>
    \/ \E x \in ChatIds, ok \in BOOLEAN : DeleteSettle(x, ok) /\ UNCHANGED <<apiVars, docVars>>
    \/ LoadChats /\ UNCHANGED <<apiVars, docVars>>
    \/ LoadChatsAgain /\ UNCHANGED <<apiVars, docVars>>
    \/ \E i \in 1..MaxInFlight : ServeList(i) /\ UNCHANGED <<apiVars, docVars>>
    \/ \E i \in 1..MaxInFlight, ok \in BOOLEAN : ListSettle(i, ok) /\ UNCHANGED <<apiVars, docVars>>

SpecChatNav == Init /\ [][NextChatNav]_vars

\* new chat, chat switch and send with the tab going to the background and
\* coming back
NextChatVisible ==
    \/ CreateNewChat /\ UNCHANGED <<apiVars, docVars>>
    \/ \E ok \in BOOLEAN : CreateSettle(ok) /\ UNCHANGED <<apiVars, docVars>>
    \/ EnableTimerFire /\ UNCHANGED <<apiVars, docVars>>
    \/ \E c \in ChatIds : Propagate(c) /\ UNCHANGED <<apiVars, docVars>>
    \/ \E c \in ChatIds : LoadChat(c) /\ UNCHANGED <<apiVars, docVars>>
    \/ \E c \in ChatIds : ServeLoad(c) /\ UNCHANGED <<apiVars, docVars>>
    \/ \E r \in loading, ok \in BOOLEAN : LoadSettle(r, ok) /\ UNCHANGED <<apiVars, docVars>>
    \/ SendMessage /\ UNCHANGED <<apiVars, docVars>>
    \/ \E ans \in Answers : SendSettle(ans) /\ UNCHANGED <<apiVars, docVars>>
    \/ RetryTimerFire /\ UNCHANGED <<apiVars, docVars>>
    \/ HandleVisibilityChange /\ UNCHANGED apiVars

SpecChatVisible == Init /\ [][NextChatVisible]_vars

\* ------------------------------------------------------------ properties
Api(p) == proc[p].kind = "api"
InFlight(p) == proc[p].pc = "fetch"
RefreshOutstanding == {q \in Procs : proc[q].kind = "refresh" /\ InFlight(q)}
Settles(p) == proc[p].pc \in {"fetch", "json"} /\ proc'[p].pc = "done"
AbsentCred == token = NULL /\ refreshToken = NULL /\ ~stored.present
UsablePair == Truthy(token) /\ Truthy(refreshToken)

\* C1: calls that are in flight together with the same stale token and are
\* each answered 401 cause one refresh only and are all retried: a call that
\* is answered 401 while another call with the same token awaits the refresh
\* does not end with the 401 error, and a call whose token has already been
\* replaced by a refresh does not start a second refresh.
C1_OneRefreshAllRetried ==
    [][\A p \in Procs :
          (Api(p) /\ InFlight(p) /\ proc[p].fetches = 1 /\ Truthy(proc[p].hdr)) =>
             /\ (\E q \in Procs : q # p /\ Api(q) /\ proc[q].pc = "await"
                                   /\ proc[q].fetches = 1 /\ proc[q].hdr = proc[p].hdr)
                  => ~(proc'[p].pc = "done" /\ proc'[p].result = "http401")
             /\ (\E q \in Procs : q # p /\ Api(q) /\ InFlight(q) /\ proc[q].fetches = 2
                                   /\ proc[q].hdr = token /\ proc[p].hdr # token)
                  => proc'[p].pc # "await"]_vars

\* C2: at most one /api/refresh call is outstanding, and the in-flight flag
\* is up for as long as it is
C2_OneRefreshOutstanding ==
    /\ Cardinality(RefreshOutstanding) <= 1
    /\ RefreshOutstanding # {} => isRefreshing

\* a refresh is outstanding and a second request for one has been turned away
C2_Witness ==
    /\ \E q \in RefreshOutstanding : proc[q].parent # 0
    /\ \E p \in Procs : proc[p].kind = "refresh" /\ proc[p].result = "skipped"

\* C3: a caller that asks for a refresh while one is in flight is held (not
\* settled) for as long as that refresh is outstanding
C3_WaiterHeldUntilSettled ==
    \A p, q \in Procs :
        (q < p /\ q \in RefreshOutstanding /\ proc[p].kind = "refresh") => proc[p].pc # "done"

\* C4: one logical call issues at most two transport calls
C4_AtMostTwoFetches == \A p \in Procs : proc[p].fetches <= 2

\* C5: when the refresh a call has triggered fails, the call settles with the
\* failure and is not sent again
C5_NoRetryAfterFailedRefresh ==
    [][\A q \in Procs :
          (proc[q].kind = "refresh" /\ proc[q].parent # 0 /\ Settles(q)
              /\ proc'[q].result = "failed")
          => /\ proc'[proc[q].parent].pc = "done"
             /\ proc'[proc[q].parent].result # "ok"]_vars

\* C6: a refresh that settles without a usable token pair leaves the
\* credential store absent
C6_FailedRefreshClearsStore ==
    [][\A q \in Procs :
          (proc[q].kind = "refresh" /\ Settles(q) /\ ~UsablePair') => AbsentCred']_vars

\* C7: once a logout has completed the credential store stays absent until an
\* authenticate settles
LogoutCompleted == \E p \in Procs : proc[p].kind = "logout" /\ proc[p].pc = "done"
C7_AbsentAfterLogout ==
    [][(LogoutCompleted /\ AbsentCred
          /\ ~\E p \in Procs : proc[p].kind = "auth" /\ Settles(p))
       => AbsentCred']_vars

\* C8: no transport call of an authenticated call is made without a credential
C8_NoCallWithoutCredential ==
    \A p \in Procs : (IncludeAuth(p) /\ InFlight(p)) => proc[p].hdr # NoHeader

\* C9: the access token and the refresh token are both present or both absent
C9_PairWhole ==
    /\ Truthy(token) <=> Truthy(refreshToken)
    /\ stored.present => (Truthy(stored.accessToken) <=> Truthy(stored.refreshToken))

\* C10: a send that is first answered 'Chat not found' is tried again, it
\* gives up on 'Chat not found' only after its third attempt, and it succeeds
\* as soon as an attempt is answered with the chat present (which the store
\* does only once it shows the chat)
C10_RetriedUntilPresent ==
    /\ send.attempts <= 3
    /\ (send.pc = "done" /\ send.first = "notfound") => send.attempts >= 2
    /\ (send.pc = "done" /\ send.last = "notfound") => send.attempts = 3
    /\ (send.pc = "done" /\ send.last = "ok") => send.result = "ok"
    /\ (send.pc = "done" /\ send.result = "ok") => send.target \in visible \cup deleted
    /\ (send.pc = "wait") => send.last = "notfound"

\* a send to a created chat was answered 'Chat not found' twice and succeeded
\* at its third attempt, when the store had the chat
C10_Witness ==
    /\ send.pc = "done" /\ send.result = "ok" /\ send.attempts = 3
    /\ send.first = "notfound" /\ send.start = send.target
    /\ send.start \in visible /\ chats[send.start] = send.start

\* C11: a send to a chat of the local map that is answered 'Chat not found'
\* at its last permitted attempt too does not end with the raw not-found
\* failure
C11_UnavailableNotRaw ==
    (send.pc = "done" /\ send.known /\ send.start = send.target
        /\ send.attempts = maxRetries /\ send.last = "notfound")
    => send.result # Failure("notfound")

\* C12: a send for a chat that is not in the local map and is answered
\* 'Chat not found' ends with that one request, without a retry wait
C12_UnknownFailsAtOnce ==
    (send.pc # "idle" /\ ~send.known /\ send.first = "notfound")
    => (send.pc = "done" /\ send.attempts = 1)

\* C13: the copy cached under a chat id is never older than the newest copy
\* a response has carried for that id
C13_NeverRegresses ==
    \A c \in ChatIds : chats[c] # 0 => cachedAt[c] >= received[c]

\* C14: when the server confirms the deletion of chat x, the entry of x is
\* dropped from the local map and every other entry stays
C14_DropsDeletedOnly ==
    [][\A x \in ChatIds :
          (x \in deleting /\ x \notin deleted /\ x \in deleted')
          => /\ chats'[x] = 0
             /\ \A k \in Keys \ {x} : chats'[k] = chats[k]]_vars

\* C15: at most one of send, clear and delete is in flight for a chat id
Sending(c) == send.pc = "request" /\ send.target = c
OpsInFlight(c) ==
    (IF Sending(c) THEN 1 ELSE 0) + (IF c \in deleting THEN 1 ELSE 0)
        + (IF c \in clearing THEN 1 ELSE 0)
C15_OneOperationPerChat == \A c \in ChatIds : OpsInFlight(c) <= 1

\* C16: a tick of the refresh timer that finds a credential older than 80% of
\* its lifetime and no refresh in flight issues a refresh, a tick that finds
\* it at or below 80% issues none, and a refresh issued by a tick before the
\* credential has expired, when it succeeds, puts the new pair into the store
\* while no call made with the old one has been answered 401
TimerTicks == timerDue = 0 /\ timerDue' = TOKEN_REFRESH_INTERVAL
RefreshIssued ==
    /\ isRefreshing'
    /\ \E q \in Procs : /\ proc[q].kind = "none"
                         /\ proc'[q].kind = "refresh" /\ proc'[q].pc = "fetch"
C17_RefreshedBeforeExpiry ==
    (stored.present /\ Truthy(token))
    => (tokenAge < TokenLifetime \/ timerDue = 0 \/ isRefreshing)

\* C18: an authenticated call whose response is a failure other than 401, or
\* whose fetch is rejected, settles in that step with that error, without a
\* further transport call, with no refresh started and the credential as it
\* was (inside a retry the caller is given 'Authentication failed' for it)
NonAuthFailure(p) ==
    FetchReject(p) \/ \E shape \in Shapes : FetchResponse(p, "fail", shape)
C19_WaitsDouble ==
    /\ send.attempts <= 3
    /\ \A i \in 2..Len(send.waits) : send.waits[i] = 2 * send.waits[i - 1]

\* C20: when createNewChat succeeds the chat is in the local map under its
\* own id and is the current chat in the same step, with no read from the
\* server started; when it fails the map and the current chat are unchanged
C20_CreatedChatCurrent ==
    [][creating' < creating =>
          IF created' # created
          THEN \E c \in created' \ created :
                  /\ chats'[c] = c /\ currentChatId' = c
                  /\ \A k \in Keys \ {c} : chats'[k] = chats[k]
                  /\ loading' = loading /\ listing' = listing
          ELSE chats' = chats /\ currentChatId' = currentChatId]_vars

\* a chat has just been created: it is current and cached with the copy of
\* the create response while no read of the server could have shown it yet
C20_Witness ==
    \E c \in created \ visible :
        /\ currentChatId = c /\ chats[c] = c /\ cachedAt[c] = updatedAt[c]
        /\ enableTimers > 0 /\ loading = {}

\* C21: refreshAccessToken called after an earlier refresh has completed
\* (saved or failed) while none is outstanding issues POST /api/refresh anew,
\* and so does a 401 answer to an authenticated call: the outcome of the
\* completed refresh is not handed out in place of a call
RefreshCompleted ==
    \E q \in Procs : /\ proc[q].kind = "refresh" /\ proc[q].pc = "done"
                     /\ proc[q].result \in {"saved", "failed"}
C21_NewCallAfterCompleted ==
    [][\A p \in Procs :
          /\ (RefreshCompleted /\ RefreshOutstanding = {} /\ RefreshCall(p))
                => /\ proc'[p].kind = "refresh" /\ proc'[p].pc = "fetch"
                   /\ proc'[p].fetches = 1 /\ isRefreshing'
          /\ (RefreshCompleted /\ RefreshOutstanding = {} /\ Api(p)
                 /\ FetchResponse(p, "unauth", "pair"))
                => RefreshIssued]_vars

\* one refresh has been saved, one has failed, and a third one, requested
\* after both, is in flight
C21_Witness ==
    \E q, r, p \in Procs :
        /\ q < p /\ r < p
        /\ proc[q].kind = "refresh" /\ proc[q].result = "saved"
        /\ proc[r].kind = "refresh" /\ proc[r].result = "failed"
        /\ proc[p].kind = "refresh" /\ proc[p].pc = "fetch" /\ proc[p].parent = 0
        /\ isRefreshing

\* C22: isRefreshing is up exactly while an /api/refresh call is outstanding:
\* it is down in every state without one, and the step in which a refresh
\* settles (saved, refused, or failed with an error) takes it down
C22_MarkerTracksRefresh ==
    [][/\ isRefreshing <=> RefreshOutstanding # {}
       /\ \A q \in Procs :
             (proc[q].kind = "refresh" /\ Settles(q))
             => ~isRefreshing' /\ RefreshOutstanding' = {}]_vars

\* a refresh has been saved and a later one has failed; the flag is down and
\* an authenticated call made since is in flight
C22_Witness ==
    /\ ~isRefreshing
    /\ \E q, r \in Procs :
          /\ q < r
          /\ proc[q].kind = "refresh" /\ proc[q].result = "saved"
          /\ proc[r].kind = "refresh" /\ proc[r].result = "failed"
    /\ \E p \in Procs : Api(p) /\ InFlight(p) /\ proc[p].fetches = 1

\* C23: when the tab comes back while a chat is current, a read of that chat
\* from the server is started
C23_RefreshFetchesCurrent ==
    [][(hidden /\ ~hidden' /\ currentChatId # 0)
          => \E r \in loading' : r.id = currentChatId]_vars

\* C24: no send is started for a created chat while its 3000 ms timer is
\* pending.  Timers fire in the order in which they were set, so the timer of
\* the chat created last is pending for as long as any timer is
NewestCreated == Cardinality(created)
SendStarts == send.pc \in {"idle", "done"} /\ send'.pc = "request"
C24_NoSendInWindow ==
    [][SendStarts => ~(enableTimers > 0 /\ send'.target = NewestCreated)]_vars

\* C25: a send makes at most 3 attempts; while it runs isLoading is up and no
\* other send starts; the step that ends it takes isLoading down and enables
\* the input, whatever the result; and, its requests being answered, it ends
SendRuns == send.pc \in {"request", "wait"}
SendEnds == SendRuns /\ send'.pc = "done"
C25_SendTerminates ==
    /\ [](send.attempts <= maxRetries /\ (SendRuns => isLoading))
    /\ [][/\ SendRuns => ~SendMessage
          /\ SendEnds => (~isLoading' /\ inputEnabled')]_vars
    /\ (SendRuns ~> (send.pc = "done" /\ ~isLoading))

\* a send has ended with a failure at its third attempt: isLoading is down
\* and the input is enabled
C25_Witness ==
    /\ send.pc = "done" /\ send.attempts = maxRetries /\ send.result # "ok"
    /\ ~isLoading /\ inputEnabled

\* C26: every attempt of a send goes to the chat that was current when the
\* send started
C26_AttemptsSameChat == send.pc # "idle" => send.target = send.start

\* C27: the copy stored under a key of the local map is a copy of the chat
\* with that id
C27_StoredUnderOwnId == \A k \in Keys : chats[k] # 0 => chats[k] = k

\* C28: while no chat is current the message input is disabled
C28_InputNeedsChat == currentChatId = 0 => ~inputEnabled

\* C29: whenever no request of the ChatManager is in flight, the current chat
\* is null or a key of the local map
NoOperation ==
    /\ creating = 0 /\ loading = {} /\ deleting = {} /\ clearing = {}
    /\ listing = NoList /\ send.pc \in {"idle", "done"}
C29_CurrentIsKnown == NoOperation => (currentChatId = 0 \/ chats[currentChatId] # 0)

\* all requests have settled after a loadChats whose list did not have a
\* chat just created: that chat is gone from the map and a chat of the list
\* is current
C29_Witness ==
    /\ NoOperation
    /\ currentChatId # 0 /\ chats[currentChatId] # 0
    /\ \E c \in created \ (visible \cup deleted) : c # currentChatId /\ chats[c] = 0

\* C30: isAuthenticated() is true exactly when the token record exists under
\* the storage key
C30_MemoryAgreesWithStorage == isAuthenticated <=> stored.present

TypeOK ==
    /\ token \in -1..(NumProcs + 1)
    /\ isRefreshing \in BOOLEAN
    /\ failedQueue = <<>>
    /\ currentChatId \in Keys
    /\ send.attempts <= maxRetries

====
